---- MODULE Spec2Model ----
(***************************************************************************)
(* Model of the flight-search orchestration of Kostofei/VMAG:              *)
(*   api/views.py        FlightSearchView.post, _generate_cache_key        *)
(*   api/serializers.py  LegSerializer, FlightSearchSerializer             *)
(*   flights/services.py FlightParser.run and the steps it awaits          *)
(* The Django cache (lock records and cached results, both with a TTL) is  *)
(* shared by all request handlers; time passes through Tick.               *)
(***************************************************************************)
EXTENDS Integers, Sequences, FiniteSets, TLC

(***************************************************************************)
(* Bounds of the model.                                                    *)
(***************************************************************************)
\* request handlers (server workers) that run post concurrently
NumWorkers == 2
\* requester identities (user ids / guest session keys)
NumRequesters == 2
\* longest leg list drawn for the key-derivation inputs
MaxLegs == 2

(***************************************************************************)
(* Program constants.                                                      *)
(***************************************************************************)
\* cache.add(lock_id, "true", timeout=60)
LockTimeout == 60
\* cache.set(cache_key, found_flights, timeout=60 * 30)
CacheTimeout == 60 * 30
\* hashlib.md5(...).hexdigest() is 32 hexadecimal characters
Md5HexLen == 32
\* f"flights_search_{...}"
KeyPrefix == "flights_search_"
\* run's result when the flight list is empty
NoFlights == "No flights found matching your search"
\* run's result when an exception is caught: f"Ошибка: {e}"
ErrorText == "Error: <exception>"
\* seconds that pass in one step of the clock
TickLen == LockTimeout \div 2

Workers == 1..NumWorkers
Requesters == 1..NumRequesters

(***************************************************************************)
(* Python dicts are insertion ordered: a dict is a sequence of             *)
(* <<key, value>> items.  A leg date is text "n1 sep n2 sep n3", kept as   *)
(* the record of its three numbers and its separator.                      *)
(***************************************************************************)
DateText(n1, sep, n2, n3) == [n1 |-> n1, sep |-> sep, n2 |-> n2, n3 |-> n3]

\* "2026-02-01", "02/01/2026": the same calendar day in the two accepted forms
IsoDate == DateText(2026, "-", 2, 1)
UsDate == DateText(2, "/", 1, 2026)

\* what a Python call gives when an exception leaves it
Raised == "<raised>"

\* calendar.monthrange: the days of month m of year y
DaysIn(y, m) ==
    IF m \in {4, 6, 9, 11} THEN 30
    ELSE IF m # 2 THEN 31
    ELSE IF (y % 4 = 0 /\ y % 100 # 0) \/ y % 400 = 0 THEN 29 ELSE 28

IsDate(y, m, d) == y \in 1..9999 /\ m \in 1..12 /\ d \in 1..DaysIn(y, m)

\* mutant of _format_date: the text is emitted as it was given
format_date_as_given(t) == t
\* FlightParser._format_date: strptime with "%Y-%m-%d", then with "%m/%d/%Y";
\* the text it returns is always year-month-day; any other text raises
format_date(t) ==
    IF t.sep = "-" /\ IsDate(t.n1, t.n2, t.n3) THEN DateText(t.n1, "-", t.n2, t.n3)
    ELSE IF t.sep = "/" /\ IsDate(t.n3, t.n1, t.n2) THEN DateText(t.n3, "-", t.n1, t.n2)
    ELSE Raised

Keys(d) == {d[i][1] : i \in DOMAIN d}
Has(d, k) == k \in Keys(d)
Get(d, k) == d[CHOOSE i \in DOMAIN d : d[i][1] = k][2]
GetOr(d, k, default) == IF Has(d, k) THEN Get(d, k) ELSE default

\* str < str of Python: code point order (upper case before lower case)
CodePointOrder ==
    <<"ADT", "CNN", "INF", "cabin", "date", "destination", "legs", "origin">>
StrLess(a, b) ==
    LET pos(s) == CHOOSE i \in DOMAIN CodePointOrder : CodePointOrder[i] = s
    IN  pos(a) < pos(b)

\* sorted(d.items()) by key, as json.dumps(sort_keys=True) emits a dict
RECURSIVE SortItems(_)
SortItems(d) ==
    IF Len(d) <= 1 THEN d
    ELSE LET m == CHOOSE i \in DOMAIN d :
                      \A j \in DOMAIN d : j # i => StrLess(d[i][1], d[j][1])
             rest == [j \in 1..(Len(d) - 1) |-> IF j < m THEN d[j] ELSE d[j + 1]]
         IN  <<d[m]>> \o SortItems(rest)

\* mutant of json.dumps: sort_keys left out, items in insertion order
JsonDumpsUnsorted(data) ==
    [i \in DOMAIN data |->
        IF data[i][1] = "legs"
        THEN <<"legs", [j \in DOMAIN data[i][2] |-> data[i][2][j]]>>
        ELSE data[i]]

\* json.dumps(data, sort_keys=True): the text, as the canonical item sequence
\* (dict keys sorted at every level, the list of legs in list order)
JsonDumps(data) ==
    LET top == SortItems(data)
    IN  [i \in DOMAIN top |->
            IF top[i][1] = "legs"
            THEN <<"legs", [j \in DOMAIN top[i][2] |-> SortItems(top[i][2][j])]>>
            ELSE top[i]]

\* hashlib.md5(text).hexdigest(): a digest of Md5HexLen hex characters; the
\* digests of different texts differ (no collision among the bounded inputs)
Md5HexDigest(text) == [hexlen |-> Md5HexLen, of |-> text]

\* FlightSearchView._generate_cache_key
generate_cache_key(data) == <<KeyPrefix, Md5HexDigest(JsonDumps(data))>>

(***************************************************************************)
(* FlightSearchSerializer / LegSerializer.                                 *)
(***************************************************************************)
CabinChoices == {"Y", "W", "C", "F"}

\* LegSerializer: three required CharFields; the date is kept as given
leg_is_valid(leg) ==
    /\ Has(leg, "origin") /\ Len(Get(leg, "origin")) <= 10
    /\ Has(leg, "destination") /\ Len(Get(leg, "destination")) <= 10
    /\ Has(leg, "date")

\* serializer.is_valid()
is_valid(raw) ==
    /\ Has(raw, "legs")
    /\ \A j \in DOMAIN Get(raw, "legs") : leg_is_valid(Get(raw, "legs")[j])
    /\ Has(raw, "cabin") => Get(raw, "cabin") \in CabinChoices

leg_validated(leg) ==
    << <<"origin", Get(leg, "origin")>>,
       <<"destination", Get(leg, "destination")>>,
       <<"date", Get(leg, "date")>> >>

\* serializer.validated_data: the declared fields in declaration order,
\* defaults filled in
validated_data(raw) ==
    << <<"legs", [j \in DOMAIN Get(raw, "legs") |-> leg_validated(Get(raw, "legs")[j])]>>,
       <<"ADT", GetOr(raw, "ADT", 1)>>,
       <<"CNN", GetOr(raw, "CNN", 0)>>,
       <<"INF", GetOr(raw, "INF", 0)>>,
       <<"cabin", GetOr(raw, "cabin", "C")>> >>

(***************************************************************************)
(* The request bodies the callers send (request.data).                     *)
(***************************************************************************)
Leg(o, d, date) == << <<"origin", o>>, <<"destination", d>>, <<"date", date>> >>

\* {legs:[{JFK,LHR,2026-02-01}], ADT:1, cabin:C}
BodyIso == << <<"legs", <<Leg("JFK", "LHR", IsoDate)>> >>, <<"ADT", 1>>, <<"cabin", "C">> >>
\* no legs: fails validation
BodyNoLegs == << <<"ADT", 1>>, <<"cabin", "C">> >>

Bodies == {BodyIso, BodyNoLegs}
NoBody == << >>

CacheKeys == {generate_cache_key(validated_data(b)) : b \in {x \in Bodies : is_valid(x)}}
NoKey == <<KeyPrefix, Md5HexDigest(<< >>)>>

(***************************************************************************)
(* Python values that travel through post.                                 *)
(***************************************************************************)
None == "None"
\* a non-empty list of ticket dicts
TicketList == "<list of tickets>"
\* mutant of the hit test: only a cached list counts as a hit
TruthyListOnly(v) == v = TicketList
\* `if cached_data:` -- None is false, a non-empty list or string is true
Truthy(v) == v # None
\* isinstance(found_flights, list)
is_list(v) == v = TicketList

HTTP_200_OK == 200
HTTP_400_BAD_REQUEST == 400
HTTP_409_CONFLICT == 409
\* an exception that leaves post: the framework answers 500
HTTP_500_SERVER_ERROR == 500

NoResponse == [to |-> 0, status |-> 0, body |-> None]
\* Response(body, status=status), and the requester it goes to
Response(r, body, status) == [to |-> r, status |-> status, body |-> body]
InProgressDetail == "detail: parsing already running"
SerializerErrors == "serializer.errors"
Detail(text) == "detail: " \o text
Traceback == "unhandled exception"

(***************************************************************************)
(* FlightParser.run as a function of what the browser and the site do      *)
(* during the call: env names the outcome of each awaited phase ("-" for a *)
(* phase the run never reaches).                                           *)
(***************************************************************************)
Env(launch, page, nav, content, parse, save) ==
    [launch |-> launch, page |-> page, nav |-> nav,
     content |-> content, parse |-> parse, save |-> save]

NoEnv == Env("-", "-", "-", "-", "-", "-")

RunEnvs ==
    { Env("fault", "-", "-", "-", "-", "-"),
      Env("ok", "fault", "-", "-", "-", "-"),
      Env("ok", "ok", "fault", "-", "-", "-"),
      Env("ok", "ok", "ok", "nothing_found", "-", "-"),
      Env("ok", "ok", "ok", "timeout", "-", "-"),
      Env("ok", "ok", "ok", "fault", "-", "-"),
      Env("ok", "ok", "ok", "best_deals", "fault", "-"),
      Env("ok", "ok", "ok", "best_deals", "expand_timeout", "-"),
      Env("ok", "ok", "ok", "best_deals", "no_cards", "-"),
      Env("ok", "ok", "ok", "best_deals", "none_extracted", "-"),
      Env("ok", "ok", "ok", "best_deals", "tickets", "saved"),
      Env("ok", "ok", "ok", "best_deals", "tickets", "db_error") }

EmptyList == "[]"

\* mutant of the content wait: whichever element appeared counts as content
wait_for_content_any_element(env) == IF env.content = "timeout" THEN "False" ELSE "True"

\* FlightParser._wait_for_content: True for the results-complete marker,
\* False for the nothing-found marker, and for a timeout or any other
\* exception of the wait (the except branch)
wait_for_content(env) == IF env.content = "best_deals" THEN "True" ELSE "False"

\* FlightParser._parse_results: [] unless the content arrived; then scroll,
\* expand (the wait for the expanded cards may time out, which raises),
\* collect the cards (none: []) and extract them
parse_results(env) ==
    LET content == wait_for_content(env)
    IN  IF content = Raised THEN Raised
        ELSE IF content = "False" THEN EmptyList
        ELSE IF env.parse \in {"fault", "expand_timeout"} THEN Raised
        ELSE IF env.parse \in {"no_cards", "none_extracted"} THEN EmptyList
        ELSE TicketList

\* mutant of run: an exception of the save is not swallowed and ends in the
\* except branch of run
run_save_raises(env) ==
    IF env.launch = "fault" \/ env.page = "fault" THEN Raised
    ELSE IF env.nav = "fault" THEN ErrorText
    ELSE LET flights_list == parse_results(env)
         IN  IF flights_list = Raised \/ env.save = "db_error" THEN ErrorText
             ELSE IF flights_list = TicketList THEN TicketList
             ELSE NoFlights

\* FlightParser.run: launch and page set-up stand before the try block; inside
\* it any exception becomes the error text and an empty list the marker
run(env) ==
    IF env.launch = "fault" \/ env.page = "fault" THEN Raised
    ELSE IF env.nav = "fault" THEN ErrorText
    ELSE LET flights_list == parse_results(env)
         IN  IF flights_list = Raised THEN ErrorText
             ELSE IF flights_list = TicketList THEN TicketList
             ELSE NoFlights

VARIABLES
    lock,      \* lock[r]: seconds the lock record of requester r still lives, 0 = no record
    cache,     \* cache[k]: the cached payload of key k and the seconds it still lives
    pc,        \* pc[w]: where worker w stands in post
    who,       \* who[w]: the requester of the request worker w handles
    body,      \* body[w]: request.data of that request
    found,     \* found[w]: cached_data / found_flights of that request
    seen,      \* seen[w]: what the browser and the site did during that request's run
    status_code, \* status_code[w]: the status post chose for that request
    owns,      \* owns[w]: the live lock record of who[w] is the one this request of w created
    out,       \* the response the step just taken returned (NoResponse: none), and to whom
    kd,        \* key derivation: the two dicts handed to _generate_cache_key
    kk,        \* key derivation: the two keys derived
    ud,        \* URL builder: the two search_data dicts handed to it
    ut,        \* URL builder: the trip type of each (_determine_trip_type)
    uu,        \* URL builder: what _construct_search_url gave for each
    cards,     \* extraction: the ticket cards of the page
    results,   \* extraction: what _process_chunks returned
    db,        \* storage: the Ticket and FlightSegment tables
    before,    \* storage: the tables when the last _save_flights_to_db call began
    batch,     \* storage: flights_data of the last call
    fault,     \* storage: the write of the last call that failed (0: none)
    history,   \* storage: the batches of the calls that committed, oldest first
    phase,     \* scrolling: where _scroll_page stands
    last_count,        \* scrolling: last_count
    no_change_counter, \* scrolling: no_change_counter
    observed,  \* scrolling: every current_count read so far, oldest first
    ticket_els,   \* expanding: the .ticket cards of the page
    clicked_tickets_count, \* expanding: clicked_tickets_count (NotYet before the trigger)
    runs,      \* pipeline: each call of FlightParser.run, where it stands and what it did
    sessions,  \* pipeline: every browser launched so far, "open" or "closed"
    chunks     \* extraction: the loop of _process_chunks and the tasks of its batches

reqVars == <<pc, who, body, found, seen, status_code>>
gateVars == <<lock, cache, reqVars, owns, out>>
keyVars == <<kd, kk>>
urlVars == <<ud, ut, uu>>
extractVars == <<cards, results>>
dbVars == <<db, before, batch, fault, history>>
scrollVars == <<phase, last_count, no_change_counter, observed>>
\* the state of the stages of the pipeline that follow the scroll
stageVars == <<ticket_els, clicked_tickets_count, runs, sessions, chunks>>
\* the state of the parser's own steps, which post never touches
parserVars == <<keyVars, urlVars, extractVars, dbVars, scrollVars, stageVars>>
vars == <<lock, cache, pc, who, body, found, seen, status_code, owns, out, kd, kk,
          ud, ut, uu, cards, results, db, before, batch, fault, history,
          phase, last_count, no_change_counter, observed,
          ticket_els, clicked_tickets_count, runs, sessions, chunks>>

Max(a, b) == IF a >= b THEN a ELSE b

(***************************************************************************)
(* The Django cache API used by post.                                      *)
(***************************************************************************)
NoEntry == [val |-> None, ttl |-> 0]

\* cache.get(key): the value of a live entry, else None
cache_get(k) == IF cache[k].ttl > 0 THEN cache[k].val ELSE None

\* cache.set(key, value, timeout): the cache afterwards
cache_set(k, v, timeout) == [cache EXCEPT ![k] = [val |-> v, ttl |-> timeout]]

\* mutant of cache.add: the record is written whether or not one exists
cache_add_always(r) == TRUE
\* cache.add(lock_id, "true", timeout) succeeds only when no live record exists
cache_add_ok(r) == lock[r] = 0

\* mutant of cache.add: the timeout taken for minutes
cache_add_minutes(r, timeout) == [lock EXCEPT ![r] = timeout * 60]
\* the lock store after a successful cache.add
cache_add(r, timeout) == [lock EXCEPT ![r] = timeout]

\* cache.delete(lock_id): the lock store afterwards
cache_delete(r) == [lock EXCEPT ![r] = 0]

\* the key of the request worker w handles
cache_key(w) == generate_cache_key(validated_data(body[w]))

KeyIdle == <<NoBody, NoBody>>

\* no request in progress, nothing cached
GateIdle ==
    /\ lock = [r \in Requesters |-> 0]
    /\ cache = [k \in CacheKeys |-> NoEntry]
    /\ pc = [w \in Workers |-> "idle"]
    /\ who = [w \in Workers |-> 0]
    /\ body = [w \in Workers |-> NoBody]
    /\ found = [w \in Workers |-> None]
    /\ seen = [w \in Workers |-> NoEnv]
    /\ status_code = [w \in Workers |-> 0]
    /\ owns = [w \in Workers |-> FALSE]
    /\ out = NoResponse

\* the parser's steps not under study
UrlIdle == ud = <<NoBody, NoBody>> /\ ut = <<None, None>> /\ uu = <<None, None>>
ExtractIdle == cards = << >> /\ results = << >>
DbIdle == db = << >> /\ before = << >> /\ batch = << >> /\ fault = 0 /\ history = << >>
ScrollIdle == phase = "-" /\ last_count = 0 /\ no_change_counter = 0 /\ observed = << >>
\* evaluate has not run: no clicked_tickets_count yet
NotYet == -1
StageIdle ==
    /\ ticket_els = << >> /\ clicked_tickets_count = NotYet
    /\ runs = << >> /\ sessions = << >> /\ chunks = << >>

Init ==
    /\ lock = [r \in Requesters |-> 0]
    /\ cache = [k \in CacheKeys |-> NoEntry]
    /\ pc = [w \in Workers |-> "idle"]
    /\ who = [w \in Workers |-> 0]
    /\ body = [w \in Workers |-> NoBody]
    /\ found = [w \in Workers |-> None]
    /\ seen = [w \in Workers |-> NoEnv]
    /\ status_code = [w \in Workers |-> 0]
    /\ owns = [w \in Workers |-> FALSE]
    /\ out = NoResponse
    /\ kd = KeyIdle
    /\ kk = <<NoKey, NoKey>>
    /\ UrlIdle /\ ExtractIdle /\ DbIdle /\ ScrollIdle /\ StageIdle

\* post returns (or is left by an exception): the worker is free again
Return(w, response) ==
    /\ pc' = [pc EXCEPT ![w] = "idle"]
    /\ who' = [who EXCEPT ![w] = 0]
    /\ body' = [body EXCEPT ![w] = NoBody]
    /\ found' = [found EXCEPT ![w] = None]
    /\ seen' = [seen EXCEPT ![w] = NoEnv]
    /\ status_code' = [status_code EXCEPT ![w] = 0]
    /\ out' = response

\* views.py 32-52: build the serializer, derive lock_id, try the lock
PostAcquire(w, r, b) ==
    /\ pc[w] = "idle"
    /\ IF ~cache_add_ok(r)
       THEN /\ out' = Response(r, InProgressDetail, HTTP_409_CONFLICT)
            /\ UNCHANGED <<lock, pc, who, body, owns>>
       ELSE /\ lock' = cache_add(r, LockTimeout)
            /\ owns' = [v \in Workers |-> v = w \/ (owns[v] /\ who[v] # r)]
            /\ pc' = [pc EXCEPT ![w] = "locked"]
            /\ who' = [who EXCEPT ![w] = r]
            /\ body' = [body EXCEPT ![w] = b]
            /\ out' = NoResponse
    /\ UNCHANGED <<cache, found, seen, status_code, parserVars>>

\* views.py 54-62, 85: validate; on success derive the key and read the cache
PostValidate(w) ==
    /\ pc[w] = "locked"
    /\ IF ~is_valid(body[w])
       THEN /\ Return(w, Response(who[w], SerializerErrors, HTTP_400_BAD_REQUEST))
            /\ owns' = [owns EXCEPT ![w] = FALSE]
       ELSE LET cached_data == cache_get(cache_key(w))
            IN  /\ found' = [found EXCEPT ![w] = cached_data]
                /\ pc' = [pc EXCEPT ![w] = IF Truthy(cached_data) THEN "hit" ELSE "run"]
                /\ out' = NoResponse
                /\ UNCHANGED <<who, body, seen, status_code, owns>>
    /\ UNCHANGED <<lock, cache, parserVars>>

\* views.py 63-65: cache hit, release the lock and answer from the cache
PostHit(w) ==
    /\ pc[w] = "hit"
    /\ lock' = cache_delete(who[w])
    /\ owns' = [v \in Workers |-> owns[v] /\ who[v] # who[w]]
    /\ Return(w, Response(who[w], found[w], HTTP_200_OK))
    /\ UNCHANGED <<cache, parserVars>>

\* views.py 67-78: the scrape, in flight while pc[w] = "run", comes back;
\* its result is cached unless it is an error text.  An exception of run
\* leaves post at once.
PostScrape(w, env) ==
    /\ pc[w] = "run"
    /\ LET found_flights == run(env)
       IN  IF found_flights = Raised
           THEN /\ Return(w, Response(who[w], Traceback, HTTP_500_SERVER_ERROR))
                /\ owns' = [owns EXCEPT ![w] = FALSE]
                /\ UNCHANGED cache
           ELSE /\ IF is_list(found_flights) \/ found_flights = NoFlights
                   THEN /\ cache' = cache_set(cache_key(w), found_flights, CacheTimeout)
                        /\ status_code' = [status_code EXCEPT ![w] = HTTP_200_OK]
                        /\ found' = [found EXCEPT ![w] = found_flights]
                   ELSE /\ status_code' = [status_code EXCEPT ![w] = HTTP_400_BAD_REQUEST]
                        /\ found' = [found EXCEPT ![w] = Detail(found_flights)]
                        /\ UNCHANGED cache
                /\ seen' = [seen EXCEPT ![w] = env]
                /\ pc' = [pc EXCEPT ![w] = "release"]
                /\ out' = NoResponse
                /\ UNCHANGED <<who, body, owns>>
    /\ UNCHANGED <<lock, parserVars>>

\* views.py 80-83: release the lock and answer
PostRelease(w) ==
    /\ pc[w] = "release"
    /\ lock' = cache_delete(who[w])
    /\ owns' = [v \in Workers |-> owns[v] /\ who[v] # who[w]]
    /\ Return(w, Response(who[w], found[w], status_code[w]))
    /\ UNCHANGED <<cache, parserVars>>

\* TickLen seconds pass: every live record of the cache is that much older
Tick ==
    /\ \/ \E r \in Requesters : lock[r] > 0
       \/ \E k \in CacheKeys : cache[k].ttl > 0
    /\ lock' = [r \in Requesters |-> Max(0, lock[r] - TickLen)]
    /\ owns' = [v \in Workers |-> owns[v] /\ lock[who[v]] > TickLen]
    /\ cache' = [k \in CacheKeys |->
                    IF cache[k].ttl > TickLen
                    THEN [cache[k] EXCEPT !.ttl = @ - TickLen]
                    ELSE NoEntry]
    /\ out' = NoResponse
    /\ UNCHANGED <<reqVars, parserVars>>

Next ==
    \/ \E w \in Workers, r \in Requesters, b \in Bodies : PostAcquire(w, r, b)
    \/ \E w \in Workers : PostValidate(w)
    \/ \E w \in Workers : PostHit(w)
    \/ \E w \in Workers, env \in RunEnvs : PostScrape(w, env)
    \/ \E w \in Workers : PostRelease(w)
    \/ Tick

Spec == Init /\ [][Next]_vars

(***************************************************************************)
(* Key derivation on its own: _generate_cache_key is a static method, the  *)
(* two dicts handed to it are drawn from KeyDicts, in any item order.      *)
(***************************************************************************)
Orders(n) == {p \in [1..n -> 1..n] : \A i, j \in 1..n : p[i] = p[j] => i = j}
Reorder(d, p) == [i \in DOMAIN d |-> d[p[i]]]

KeyDates == {IsoDate, UsDate}
KeyLegLists == UNION {[1..n -> {Leg("JFK", "LHR", t) : t \in KeyDates}] : n \in 1..MaxLegs}

\* validated data in declaration order
KeyData == {validated_data(<< <<"legs", legs>> >>) : legs \in KeyLegLists}

\* the same data with its items, and the items of its legs, in any order
AnyOrder(d) ==
    { Reorder([i \in DOMAIN d |->
                  IF d[i][1] = "legs"
                  THEN <<"legs", [j \in DOMAIN d[i][2] |-> Reorder(d[i][2][j], q)]>>
                  ELSE d[i]], p) :
        p \in Orders(5), q \in Orders(3) }

KeyInit ==
    /\ lock = [r \in Requesters |-> 0]
    /\ cache = [k \in CacheKeys |-> NoEntry]
    /\ pc = [w \in Workers |-> "idle"]
    /\ who = [w \in Workers |-> 0]
    /\ body = [w \in Workers |-> NoBody]
    /\ found = [w \in Workers |-> None]
    /\ seen = [w \in Workers |-> NoEnv]
    /\ status_code = [w \in Workers |-> 0]
    /\ owns = [w \in Workers |-> FALSE]
    /\ out = NoResponse
    /\ \E d \in KeyData, e \in KeyData : kd \in {<<x, e>> : x \in AnyOrder(d)}
    /\ kk = <<NoKey, NoKey>>
    /\ UrlIdle /\ ExtractIdle /\ DbIdle /\ ScrollIdle /\ StageIdle

\* views.py 87-91 applied to both dicts
KeyDerive ==
    /\ kk = <<NoKey, NoKey>>
    /\ kk' = <<generate_cache_key(kd[1]), generate_cache_key(kd[2])>>
    /\ UNCHANGED <<lock, cache, reqVars, owns, out, kd, urlVars, extractVars, dbVars, scrollVars, stageVars>>

KeyNext == KeyDerive

KeySpec == KeyInit /\ [][KeyNext]_vars

(***************************************************************************)
(* Properties of the gate and the result cache (Spec).                     *)
(***************************************************************************)
\* worker w takes a step of its own request
Steps(w) == pc'[w] # pc[w]
\* a request that held the lock has just returned, or was left by an exception
Answered == out.status \in {HTTP_200_OK, HTTP_400_BAD_REQUEST, HTTP_500_SERVER_ERROR}

\* C1: whenever a call of post that acquired the requester's lock returns or
\* aborts, on whatever path, the lock record of that requester is absent.
C1_LockReleasedOnEveryExit == Answered => lock[out.to] = 0

\* C2: at most one scrape (FlightParser.run) is in flight per requester, also
\* when a scrape outlasts the 60 seconds of the lock record.
C2_OneScrapePerRequester ==
    \A r \in Requesters : Cardinality({w \in Workers : pc[w] = "run" /\ who[w] = r}) <= 1

\* C3: a request of a requester whose lock record is live is answered 409 and
\* changes neither the lock, the cache nor any request in progress (no cache
\* lookup, no scrape, no cache write); a request goes on past the gate only
\* when no live record exists, and then holds a fresh one.
C3_GateConflict ==
    [][ /\ out'.status = HTTP_409_CONFLICT =>
             /\ lock[out'.to] > 0
             /\ UNCHANGED <<lock, cache, reqVars>>
        /\ \A w \in Workers :
             pc[w] = "idle" /\ pc'[w] # "idle" =>
                 /\ lock[who'[w]] = 0
                 /\ lock'[who'[w]] = LockTimeout
                 /\ out'.status # HTTP_409_CONFLICT ]_vars

\* a second request of a requester is answered 409 while the first one scrapes
C3_Witness ==
    /\ out.status = HTTP_409_CONFLICT
    /\ \E w \in Workers : pc[w] = "run" /\ who[w] = out.to /\ lock[out.to] > 0

\* C4: a request whose payload fails validation does no lock, cache or browser
\* work: every request that has gone to the lock store has a valid payload.
C4_InvalidRejectedBeforeLock == \A w \in Workers : pc[w] # "idle" => is_valid(body[w])

\* C5: a lock record never lives longer than LockTimeout seconds: its
\* remaining life is at most LockTimeout, no step of any request prolongs it
\* (a 409 does not refresh it) and every passage of time shortens it, so it
\* is gone (acquirable) within the expiry window even if nobody releases it.
C5_LockExpires ==
    [][ \A r \in Requesters :
          /\ lock'[r] <= LockTimeout
          /\ lock[r] > 0 => lock'[r] <= lock[r]
          /\ lock[r] > 0 /\ Tick => lock'[r] < lock[r] ]_vars

\* the record of a requester is gone while its holder is still scraping, and
\* nobody else is at work who could have deleted it
C5_Witness ==
    \E w \in Workers :
        /\ pc[w] = "run" /\ lock[who[w]] = 0
        /\ \A v \in Workers \ {w} : pc[v] = "idle"

\* a phase of the run failed: the browser or the navigation broke, or the site
\* never showed results or the nothing-found marker (unparsable cards and a
\* failed save are not failures of the search)
ScrapeFailed(env) ==
    \/ "fault" \in {env.launch, env.page, env.nav, env.content, env.parse}
    \/ env.content = "timeout"

\* C6: the result cache is written only after a successful scrape, with a list
\* of tickets or the no-results marker; a scrape that failed writes nothing,
\* so the next request with the same key scrapes again.
C6_CacheOnlyOnSuccess ==
    [][ /\ \A k \in CacheKeys :
             cache'[k] # cache[k] /\ ~Tick =>
                 \E w \in Workers :
                     /\ pc[w] = "run" /\ pc'[w] = "release"
                     /\ k = cache_key(w)
                     /\ cache'[k].val \in {TicketList, NoFlights}
        /\ \A w \in Workers :
             pc[w] = "run" /\ Steps(w) /\ ScrapeFailed(seen'[w]) => cache' = cache ]_vars

\* C7: a run whose content wait timed out ends as a failure: the caller gets a
\* failure detail, not the no-results marker, and nothing is cached for it.
C7_TimeoutIsFailure ==
    \A w \in Workers :
        pc[w] = "release" /\ seen[w].content = "timeout" =>
            /\ found[w] = Detail(ErrorText)
            /\ status_code[w] = HTTP_400_BAD_REQUEST

\* the run of the request of worker w came back with zero result cards
ZeroCards(env) == env.content = "nothing_found" \/ env.parse = "no_cards"

\* C8: a search with zero result cards answers the no-results marker and
\* stores it under the request's key for CacheTimeout seconds; a request that
\* looks the key up while the entry lives is answered that marker from the
\* cache, with no scrape and no cache write.
C8_NoResultsCached ==
    [][ \A w \in Workers :
          /\ pc[w] = "run" /\ Steps(w) /\ ZeroCards(seen'[w]) =>
                /\ pc'[w] = "release"
                /\ found'[w] = NoFlights /\ status_code'[w] = HTTP_200_OK
                /\ cache'[cache_key(w)] = [val |-> NoFlights, ttl |-> CacheTimeout]
          /\ pc[w] = "locked" /\ Steps(w) /\ is_valid(body[w])
                /\ cache[cache_key(w)].val = NoFlights /\ cache[cache_key(w)].ttl > 0 =>
                /\ pc'[w] = "hit" /\ found'[w] = NoFlights
                /\ cache' = cache
          /\ pc[w] = "hit" /\ Steps(w) =>
                /\ out' = Response(who[w], found[w], HTTP_200_OK)
                /\ pc'[w] = "idle"
                /\ cache' = cache ]_vars

\* a later request found the cached marker, some time after it was stored
C8_Witness ==
    \E w \in Workers :
        /\ pc[w] = "hit" /\ found[w] = NoFlights
        /\ cache[cache_key(w)].ttl \in 1..(CacheTimeout - 1)

\* C17: a scrape whose storage transaction failed still answers its tickets
\* with status 200 and caches them for CacheTimeout seconds, and the request
\* then releases the lock.  (That the failed batch is rolled back is
\* C14_BatchAtomic.)
C17_SaveFailureStillSucceeds ==
    [][ \A w \in Workers :
          /\ pc[w] = "run" /\ Steps(w) /\ seen'[w].save = "db_error" =>
                /\ pc'[w] = "release"
                /\ found'[w] = TicketList /\ status_code'[w] = HTTP_200_OK
                /\ cache'[cache_key(w)] = [val |-> TicketList, ttl |-> CacheTimeout]
          /\ pc[w] = "release" /\ Steps(w) /\ seen[w].save = "db_error" =>
                /\ out' = Response(who[w], TicketList, HTTP_200_OK)
                /\ lock'[who[w]] = 0 ]_vars

\* the scrape of a request came back with its tickets although the save
\* failed; they are in the cache and the request is about to release its lock
C17_Witness ==
    \E w \in Workers :
        /\ pc[w] = "release" /\ seen[w].save = "db_error"
        /\ found[w] = TicketList /\ status_code[w] = HTTP_200_OK
        /\ cache[cache_key(w)] = [val |-> TicketList, ttl |-> CacheTimeout]
        /\ lock[who[w]] > 0

\* C29: a request that completes never removes the lock record another
\* request in progress created and still holds, also after its own record
\* expired during the scrape and the requester's next request took the lock.
C29_ReleaseOnlyOwnLock ==
    [][ \A w \in Workers :
          Steps(w) /\ pc'[w] = "idle" =>
              \A v \in Workers \ {w} :
                  owns[v] => owns'[v] /\ lock'[who[v]] > 0 ]_vars

\* C23: a fault of the browser automation while navigating, waiting for the
\* content, scrolling, expanding or extracting ends the run: the request is
\* answered one error detail with a failure status, the save was never
\* reached and the cache is not written.
C23_FaultAbortsPipeline ==
    [][ \A w \in Workers :
          pc[w] = "run" /\ Steps(w)
             /\ "fault" \in {seen'[w].nav, seen'[w].content, seen'[w].parse} =>
                /\ pc'[w] = "release"
                /\ found'[w] = Detail(ErrorText)
                /\ status_code'[w] = HTTP_400_BAD_REQUEST
                /\ seen'[w].save = "-"
                /\ cache' = cache ]_vars

\* C20: a timeout of the wait for the expanded cards is not fatal: extraction
\* still runs over the cards and the request does not end with an error.
C20_ExpandTimeoutNotFatal ==
    \A w \in Workers :
        pc[w] = "release" /\ seen[w].parse = "expand_timeout" =>
            /\ found[w] \in {TicketList, NoFlights}
            /\ status_code[w] = HTTP_200_OK

(***************************************************************************)
(* Properties of the key derivation (KeySpec).                             *)
(***************************************************************************)
KeysDerived == kk # <<NoKey, NoKey>>

\* dict == dict of Python: the same items whatever their order
AsMapping(d) ==
    { IF d[i][1] = "legs"
      THEN <<"legs", [j \in DOMAIN d[i][2] |-> {d[i][2][j][n] : n \in DOMAIN d[i][2][j]}]>>
      ELSE d[i] : i \in DOMAIN d }

\* the request with every leg date in its normal form
WithNormalDates(d) ==
    [i \in DOMAIN d |->
        IF d[i][1] = "legs"
        THEN <<"legs", [j \in DOMAIN d[i][2] |->
                          [n \in DOMAIN d[i][2][j] |->
                              IF d[i][2][j][n][1] = "date"
                              THEN <<"date", format_date(d[i][2][j][n][2])>>
                              ELSE d[i][2][j][n]]]>>
        ELSE d[i]]

\* C9: two requests equal in legs, passengers and cabin, whose leg dates are
\* the same calendar days written MM/DD/YYYY or YYYY-MM-DD, get the same key.
C9_DateFormsSameKey ==
    KeysDerived /\ AsMapping(WithNormalDates(kd[1])) = AsMapping(WithNormalDates(kd[2]))
        => kk[1] = kk[2]

\* C10: the key depends on the request alone: equal requests, whatever the
\* order of their fields, get the same key, and the key is the namespace
\* prefix followed by a digest of fixed length.
C10_KeyPure ==
    KeysDerived =>
        /\ AsMapping(kd[1]) = AsMapping(kd[2]) => kk[1] = kk[2]
        /\ \A i \in 1..2 : kk[i][1] = KeyPrefix /\ kk[i][2].hexlen = Md5HexLen

\* two equal requests with their fields in different orders, keys derived
C10_Witness ==
    /\ KeysDerived
    /\ kd[1] # kd[2]
    /\ AsMapping(kd[1]) = AsMapping(kd[2])
    /\ kk[1] = kk[2]

(***************************************************************************)
(* The URL builder on its own: _determine_trip_type, _format_date and      *)
(* _construct_search_url are functions of search_data alone.               *)
(***************************************************************************)
\* longest leg list handed to the URL builder
MaxTripLegs == 3

\* self.base_url
base_url == "https://ctb.business-class.com"

\* "01.02.2026": a date text in neither accepted form
DottedDate == DateText(1, ".", 2, 2026)
\* "2026-02-30": the right form, but no day of the calendar
NoSuchDay == DateText(2026, "-", 2, 30)

\* mutant of _determine_trip_type: only one half of the mirror test
determine_trip_type_half(legs) ==
    IF Len(legs) = 1 THEN "one-way"
    ELSE IF Len(legs) = 2 /\ Get(legs[1], "origin") = Get(legs[2], "destination")
         THEN "return"
         ELSE "multi-city"

\* FlightParser._determine_trip_type
determine_trip_type(legs) ==
    LET count == Len(legs)
    IN  IF count = 1 THEN "one-way"
        ELSE IF /\ count = 2
                /\ Get(legs[1], "origin") = Get(legs[2], "destination")
                /\ Get(legs[1], "destination") = Get(legs[2], "origin")
             THEN "return"
             ELSE "multi-city"

\* FlightParser._format_date raises ValueError: both strptime calls failed
format_date_raises(t) ==
    /\ ~(t.sep = "-" /\ IsDate(t.n1, t.n2, t.n3))
    /\ ~(t.sep = "/" /\ IsDate(t.n3, t.n1, t.n2))

\* a URL text: its path elements; the elements joined with ":" are sequences
UrlText(trip_type, routes, dates, cabins, passengers) ==
    [error |-> None,
     url |-> <<base_url, "result", trip_type, routes, dates, cabins, passengers>>]
\* the ValueError of _format_date leaving _construct_search_url
MalformedDate == [error |-> "ValueError", url |-> << >>]

\* f"{leg['origin']}-{leg['destination']}"
route_of(leg) == <<Get(leg, "origin"), "-", Get(leg, "destination")>>

\* FlightParser._construct_search_url
construct_search_url(search_data) ==
    LET legs == Get(search_data, "legs")
        trip_type == determine_trip_type(legs)
        passengers == <<GetOr(search_data, "ADT", 1), GetOr(search_data, "CNN", 0),
                        GetOr(search_data, "INF", 0)>>
        cabin_code == GetOr(search_data, "cabin", "C")
    IN  IF trip_type = "one-way"
        THEN IF format_date_raises(Get(legs[1], "date")) THEN MalformedDate
             ELSE UrlText(trip_type, <<route_of(legs[1])>>,
                          <<format_date(Get(legs[1], "date"))>>,
                          <<cabin_code>>, passengers)
        ELSE IF trip_type = "return"
        THEN IF \E j \in 1..2 : format_date_raises(Get(legs[j], "date")) THEN MalformedDate
             ELSE UrlText(trip_type, <<route_of(legs[1]), route_of(legs[2])>>,
                          <<format_date(Get(legs[1], "date")),
                            format_date(Get(legs[2], "date"))>>,
                          <<cabin_code, cabin_code>>, passengers)
        ELSE IF \E j \in DOMAIN legs : format_date_raises(Get(legs[j], "date"))
             THEN MalformedDate
             ELSE UrlText(trip_type, [j \in DOMAIN legs |-> route_of(legs[j])],
                          [j \in DOMAIN legs |-> format_date(Get(legs[j], "date"))],
                          [j \in DOMAIN legs |-> cabin_code], passengers)

Airports == {"JFK", "LHR"}
UrlDates == {IsoDate, UsDate, DottedDate, NoSuchDay}
\* the two accepted forms of one day
UrlForms == {IsoDate, UsDate}
UrlRoutes == UNION {[1..n -> Airports \X Airports] : n \in 0..MaxTripLegs}

\* search_data with the route list rt and the leg dates dt
UrlData(rt, dt) ==
    validated_data(<< <<"legs", [j \in DOMAIN rt |-> Leg(rt[j][1], rt[j][2], dt[j])]>> >>)

\* two requests over the same routes: the leg dates of the first written in
\* any way, those of the second in one of the accepted forms
UrlInit ==
    /\ GateIdle /\ kd = KeyIdle /\ kk = <<NoKey, NoKey>>
    /\ ExtractIdle /\ DbIdle /\ ScrollIdle /\ StageIdle
    /\ \E rt \in UrlRoutes :
         \E d1 \in [DOMAIN rt -> UrlDates], d2 \in [DOMAIN rt -> UrlForms] :
            ud = <<UrlData(rt, d1), UrlData(rt, d2)>>
    /\ ut = <<None, None>>
    /\ uu = <<None, None>>

\* services.py 386-427 applied to both requests
UrlBuild ==
    /\ ut = <<None, None>>
    /\ ut' = [i \in 1..2 |-> determine_trip_type(Get(ud[i], "legs"))]
    /\ uu' = [i \in 1..2 |-> construct_search_url(ud[i])]
    /\ UNCHANGED <<gateVars, keyVars, ud, extractVars, dbVars, scrollVars, stageVars>>

UrlNext == UrlBuild

UrlSpec == UrlInit /\ [][UrlNext]_vars

(***************************************************************************)
(* Properties of the URL builder (UrlSpec).                                *)
(***************************************************************************)
UrlBuilt == ut # <<None, None>>

\* leg b flies leg a back
Mirrors(a, b) ==
    /\ Get(b, "destination") = Get(a, "origin")
    /\ Get(b, "origin") = Get(a, "destination")

\* C11: one leg is a one-way trip; two legs of which the second flies the
\* first back are a round trip; every other leg sequence is multi-city.
C11_TripClassification ==
    UrlBuilt =>
        \A i \in 1..2 :
            LET legs == Get(ud[i], "legs")
            IN  /\ ut[i] \in {"one-way", "return", "multi-city"}
                /\ ut[i] = "one-way" <=> Len(legs) = 1
                /\ ut[i] = "return" <=> Len(legs) = 2 /\ Mirrors(legs[1], legs[2])

\* two different legs of which the second does not fly the first back,
\* classified multi-city
C11_Witness ==
    /\ UrlBuilt
    /\ ut[1] = "multi-city" /\ Len(Get(ud[1], "legs")) = 2
    /\ ut[2] = "multi-city" /\ Len(Get(ud[2], "legs")) = 2
    /\ Get(ud[1], "legs")[1] # Get(ud[1], "legs")[2]

\* the calendar day a date text names, read by its form
DayOf(t) == IF t.sep = "-" THEN <<t.n1, t.n2, t.n3>> ELSE <<t.n3, t.n1, t.n2>>
\* the text is MM/DD/YYYY or YYYY-MM-DD and names a day of the calendar
Accepted(t) == t.sep \in {"-", "/"} /\ IsDate(DayOf(t)[1], DayOf(t)[2], DayOf(t)[3])
LegDates(d) == [j \in DOMAIN Get(d, "legs") |-> Get(Get(d, "legs")[j], "date")]

\* C12: a request whose leg dates are all MM/DD/YYYY or YYYY-MM-DD gets a URL
\* with every date emitted as YYYY-MM-DD; two requests that differ only in the
\* form of such dates get the same URL; a leg date in any other format makes
\* the construction fail with the date error and gives no URL.
C12_UrlDatesNormalized ==
    UrlBuilt =>
        /\ \A i \in 1..2 :
              LET dates == LegDates(ud[i])
              IN  IF \A j \in DOMAIN dates : Accepted(dates[j])
                  THEN /\ uu[i].error = None
                       /\ uu[i].url[5] =
                              [j \in DOMAIN dates |->
                                  DateText(DayOf(dates[j])[1], "-", DayOf(dates[j])[2],
                                           DayOf(dates[j])[3])]
                  ELSE uu[i] = MalformedDate
        /\ (/\ \A j \in DOMAIN LegDates(ud[1]) :
                  /\ Accepted(LegDates(ud[1])[j]) /\ Accepted(LegDates(ud[2])[j])
                  /\ DayOf(LegDates(ud[1])[j]) = DayOf(LegDates(ud[2])[j]))
           => uu[1] = uu[2]

\* the same round trip with its dates in the two forms, and one URL for both
C12_Witness ==
    /\ UrlBuilt
    /\ ut[1] = "return"
    /\ LegDates(ud[1]) = <<IsoDate, IsoDate>> /\ LegDates(ud[2]) = <<UsDate, UsDate>>
    /\ uu[1] = uu[2] /\ uu[1].error = None

(***************************************************************************)
(* Extraction on its own: _process_chunks over the ticket cards of the     *)
(* page, _extract_ticket_data on each card.                                *)
(***************************************************************************)
\* most cards on the page
MaxCards == 3
\* _process_chunks(tickets, search_data, chunk_size=25)
ChunkSize == 25

\* the text of a card's price element: a "$" amount with "," separators, or
\* text that float() cannot read once "$" and "," are removed
PriceText(amount, junk) == [amount |-> amount, junk |-> junk]
\* float(raw['price'].replace("$", "").replace(",", "").strip()) raises
float_raises(price) == price.junk # ""
\* ... and the number it gives otherwise
float_of(price) == price.amount

\* one flight of a card as the page shows it; when: its date and time texts
RawSegment(airline, dep, arr, when) ==
    [airline |-> airline, dep_iata |-> dep, arr_iata |-> arr, when |-> when]
\* self._clean_datetime raises on a text strptime cannot read
clean_datetime_raises(s) == s.when = "unreadable"

\* a card of the page; detached: ticket.evaluate raises
Card(uid, price, segments, detached) ==
    [uid |-> uid, price |-> price, segments |-> segments, detached |-> detached]

\* the segments of a card that _extract_ticket_data keeps: one whose dates
\* cannot be read is skipped, the others keep their index as order
RECURSIVE processed_segments(_, _)
processed_segments(raw_segments, idx) ==
    IF idx > Len(raw_segments) THEN << >>
    ELSE LET seg == raw_segments[idx]
         IN  IF clean_datetime_raises(seg)
             THEN processed_segments(raw_segments, idx + 1)
             ELSE <<[operating_airline |-> seg.airline,
                     departure |-> seg.dep_iata,
                     departure_date |-> seg.when,
                     arrival |-> seg.arr_iata,
                     arrival_date |-> seg.when,
                     order |-> idx - 1]>>
                  \o processed_segments(raw_segments, idx + 1)

\* {} of Python
EmptyDict == << >>

\* FlightParser._extract_ticket_data: the ticket dict, or {} when anything
\* raised inside the try block
extract_ticket_data(card, search_data) ==
    IF card.detached \/ float_raises(card.price) THEN EmptyDict
    ELSE << <<"validating_airline", "BA">>,
            <<"ticket_uid", card.uid>>,
            <<"price", float_of(card.price)>>,
            <<"route_type", determine_trip_type(Get(search_data, "legs"))>>,
            <<"segments", processed_segments(card.segments, 1)>> >>

\* mutant of the collector's test: every dict is collected, {} included
is_collected_any_dict(res) == TRUE
\* isinstance(res, dict) and res
is_collected(res) == res # EmptyDict

\* the first chunk_size items, and the rest
Chunk(items, chunk_size) == SubSeq(items, 1, IF Len(items) < chunk_size THEN Len(items) ELSE chunk_size)
AfterChunk(items, chunk_size) == SubSeq(items, chunk_size + 1, Len(items))

\* FlightParser._process_chunks: chunk by chunk, the non-empty dicts in order
RECURSIVE process_chunks(_, _, _)
process_chunks(items, search_data, chunk_size) ==
    IF items = << >> THEN << >>
    ELSE LET chunk == Chunk(items, chunk_size)
             chunk_results == [i \in DOMAIN chunk |-> extract_ticket_data(chunk[i], search_data)]
         IN  SelectSeq(chunk_results, is_collected)
             \o process_chunks(AfterChunk(items, chunk_size), search_data, chunk_size)

GoodPrice == PriceText(1200, "")
BadPrice == PriceText(0, "Call us")
GoodSegments == <<RawSegment("BA", "JFK", "LHR", "readable")>>
HalfReadable == <<RawSegment("BA", "JFK", "LHR", "unreadable"),
                  RawSegment("BA", "JFK", "LHR", "readable")>>
Uids == {"T1", "T2"}
\* a card's uid text may be empty: the uid element is missing
Cards ==
    {Card(u, pr, sg, dt) :
        u \in Uids \cup {""}, pr \in {GoodPrice, BadPrice}, sg \in {GoodSegments, HalfReadable},
        dt \in BOOLEAN}
CardLists == UNION {[1..n -> Cards] : n \in 0..MaxCards}
SearchData == validated_data(BodyIso)
\* results before the call: a list no extraction returns
NotExtracted == << << <<"-", "-">> >> >>

ExtractInit ==
    /\ GateIdle /\ kd = KeyIdle /\ kk = <<NoKey, NoKey>>
    /\ UrlIdle /\ DbIdle /\ ScrollIdle /\ StageIdle
    /\ cards \in CardLists
    /\ results = NotExtracted

\* services.py 483: results = await self._process_chunks(tickets, search_data, chunk_size=25)
Extract ==
    /\ results = NotExtracted
    /\ results' = process_chunks(cards, SearchData, ChunkSize)
    /\ UNCHANGED <<gateVars, keyVars, urlVars, cards, dbVars, scrollVars, stageVars>>

ExtractNext == Extract

ExtractSpec == ExtractInit /\ [][ExtractNext]_vars

(***************************************************************************)
(* Properties of the extraction (ExtractSpec).                             *)
(***************************************************************************)
Extracted == results # NotExtracted
UnparsablePrice(card) == card.price.junk # ""
Positions(P(_)) == {i \in DOMAIN cards : P(cards[i])}
Attached(card) == ~card.detached

\* C13: of N cards that can all be read but for one, whose price text is
\* unparsable, the extractor returns the N-1 others, in order, each with its
\* own uid; the result is a list (nothing was raised).
C13_ExtractorTolerance ==
    Extracted /\ Positions(Attached) = DOMAIN cards
              /\ Cardinality(Positions(UnparsablePrice)) = 1 =>
        LET bad == CHOOSE i \in DOMAIN cards : UnparsablePrice(cards[i])
            others == [j \in 1..(Len(cards) - 1) |->
                          IF j < bad THEN cards[j] ELSE cards[j + 1]]
        IN  /\ Len(results) = Len(cards) - 1
            /\ \A j \in DOMAIN results :
                  /\ Get(results[j], "ticket_uid") = others[j].uid
                  /\ Get(results[j], "price") = others[j].price.amount

\* three cards, the second with an unparsable price, two tickets returned
C13_Witness ==
    /\ Extracted
    /\ Len(cards) = 3 /\ Positions(UnparsablePrice) = {2} /\ Positions(Attached) = {1, 2, 3}
    /\ Len(results) = 2

\* C26: a card with a segment whose dates cannot be read, or with an empty
\* uid, is dropped as a whole and every other card is kept: the extractor
\* returns, in order, the cards that can be read in full, each with all its
\* segments and its uid.
C26_BadCardDroppedWhole ==
    Extracted =>
        LET Whole(card) ==
                /\ Attached(card) /\ ~UnparsablePrice(card) /\ card.uid # ""
                /\ \A k \in DOMAIN card.segments : ~clean_datetime_raises(card.segments[k])
            kept == SelectSeq(cards, Whole)
        IN  /\ Len(results) = Len(kept)
            /\ \A j \in DOMAIN results :
                  /\ Get(results[j], "ticket_uid") = kept[j].uid
                  /\ Len(Get(results[j], "segments")) = Len(kept[j].segments)

(***************************************************************************)
(* Storage on its own: _save_flights_to_db against the Ticket and          *)
(* FlightSegment tables.  A call is one step; the write of the call that   *)
(* fails, if any, is the environment's choice.                             *)
(***************************************************************************)
\* most tickets in one flights_data
MaxBatch == 2
\* most calls that commit
MaxCalls == 2

\* the Ticket table: one row per ticket_uid (unique); the FlightSegment
\* table: its rows in insertion order
NoTicket == [stored |-> FALSE, validating_airline |-> "-", price |-> 0, route_type |-> "-"]
EmptyTables == [tickets |-> [u \in Uids |-> NoTicket], segments |-> << >>]

\* FlightSegment(ticket=ticket_obj, operating_airline=..., ..., order=...)
FlightSegment(ticket_obj, seg_data) ==
    [ticket |-> ticket_obj,
     operating_airline |-> seg_data.operating_airline,
     departure |-> seg_data.departure,
     departure_date |-> seg_data.departure_date,
     arrival |-> seg_data.arrival,
     arrival_date |-> seg_data.arrival_date,
     order |-> seg_data.order]

\* mutant of the pop: the key is not found and the default [] is taken
pop_segments_default(ticket_dict) == << >>
\* ticket_dict.pop('segments', [])
pop_segments(ticket_dict) == GetOr(ticket_dict, "segments", << >>)

\* Ticket.objects.update_or_create(ticket_uid=..., defaults={...}): the table afterwards
update_or_create(tickets, ticket_dict) ==
    [tickets EXCEPT ![Get(ticket_dict, "ticket_uid")] =
        [stored |-> TRUE,
         validating_airline |-> Get(ticket_dict, "validating_airline"),
         price |-> GetOr(ticket_dict, "price", 0),
         route_type |-> Get(ticket_dict, "route_type")]]

\* mutant of the delete: the old segments are left in the table
filter_delete_nothing(rows, ticket_obj) == rows
\* FlightSegment.objects.filter(ticket=ticket_obj).delete(): the table afterwards
filter_delete(rows, ticket_obj) == SelectSeq(rows, LAMBDA r : r.ticket # ticket_obj)

\* FlightSegment.objects.bulk_create(segments_to_create): the table afterwards
bulk_create(rows, segments_to_create) == rows \o segments_to_create

\* The writes of the atomic block, in order, up to the one that fails: st is
\* the tables as written so far, the writes done and whether one has raised.
WriteTicket(st, ticket_dict, failing) ==
    LET segments_list == pop_segments(ticket_dict)
        ticket_obj == Get(ticket_dict, "ticket_uid")
        segments_to_create == [j \in DOMAIN segments_list |->
                                  FlightSegment(ticket_obj, segments_list[j])]
        upserted == [st EXCEPT !.tables.tickets = update_or_create(@, ticket_dict),
                               !.writes = @ + 1]
        cleared == [upserted EXCEPT !.tables.segments = filter_delete(@, ticket_obj),
                                    !.writes = @ + 1]
        created == [cleared EXCEPT !.tables.segments = bulk_create(@, segments_to_create),
                                   !.writes = @ + 1]
        raised(s) == [s EXCEPT !.raised = TRUE]
    IN  IF st.raised THEN st
        ELSE IF failing = st.writes + 1 THEN raised(st)
        ELSE IF failing = st.writes + 2 THEN raised(upserted)
        ELSE IF segments_to_create = << >> THEN cleared
        ELSE IF failing = st.writes + 3 THEN raised(cleared)
        ELSE created

RECURSIVE WriteBatch(_, _, _, _)
WriteBatch(st, flights_data, i, failing) ==
    IF i > Len(flights_data) THEN st
    ELSE WriteBatch(WriteTicket(st, flights_data[i], failing), flights_data, i + 1, failing)

\* mutant of transaction.atomic(): no transaction, what was written stays
atomic_exit_autocommit(tables, st) == st.tables
\* leaving `with transaction.atomic():` -- commit, or roll back on an exception
atomic_exit(tables, st) == IF st.raised THEN tables ELSE st.tables

\* FlightParser._save_flights_to_db: the tables afterwards; the exception of
\* a failed write is caught and printed
save_flights_to_db(tables, flights_data, failing) ==
    IF flights_data = << >> THEN tables
    ELSE atomic_exit(tables,
                     WriteBatch([tables |-> tables, writes |-> 0, raised |-> FALSE],
                                flights_data, 1, failing))

\* the writes a batch makes when none fails
NumWrites(flights_data) ==
    WriteBatch([tables |-> EmptyTables, writes |-> 0, raised |-> FALSE],
               flights_data, 1, 0).writes

\* what a scrape may show for a ticket: its price and its flights
Seg(n) == [operating_airline |-> "BA", departure |-> "JFK", departure_date |-> "readable",
           arrival |-> "LHR", arrival_date |-> "readable", order |-> n]
Offers == {<<900, << >> >>, <<1200, <<Seg(0)>> >>, <<950, <<Seg(0), Seg(1)>> >>}
\* (route_type as _extract_ticket_data sets it, from the legs of the search)
TicketDicts ==
    { << <<"validating_airline", "BA">>, <<"ticket_uid", u>>, <<"price", o[1]>>,
         <<"route_type", determine_trip_type(Get(SearchData, "legs"))>>,
         <<"segments", o[2]>> >> : u \in Uids, o \in Offers }
Batches == UNION {[1..n -> TicketDicts] : n \in 0..MaxBatch}
NoBatch == << << <<"-", "-">> >> >>

DbInit ==
    /\ GateIdle /\ kd = KeyIdle /\ kk = <<NoKey, NoKey>>
    /\ UrlIdle /\ ExtractIdle /\ ScrollIdle /\ StageIdle
    /\ db = EmptyTables
    /\ before = EmptyTables
    /\ batch = NoBatch
    /\ fault = 0
    /\ history = << >>

\* services.py 112-169: one call, in which write number failing fails (0: none)
Save(flights_data, failing) ==
    /\ Len(history) < MaxCalls
    /\ failing \in 0..NumWrites(flights_data)
    /\ before' = db
    /\ batch' = flights_data
    /\ fault' = failing
    /\ db' = save_flights_to_db(db, flights_data, failing)
    /\ history' = IF failing = 0 /\ flights_data # << >>
                  THEN Append(history, flights_data) ELSE history
    /\ UNCHANGED <<gateVars, keyVars, urlVars, extractVars, scrollVars, stageVars>>

DbNext == \E flights_data \in Batches, failing \in 0..(3 * MaxBatch) : Save(flights_data, failing)

DbSpec == DbInit /\ [][DbNext]_vars

(***************************************************************************)
(* Properties of the storage (DbSpec).                                     *)
(***************************************************************************)
Called == batch # NoBatch
\* the stored segments of ticket u, in order
StoredSegments(tables, u) == SelectSeq(tables.segments, LAMBDA r : r.ticket = u)
InBatch(flights_data, u) == \E i \in DOMAIN flights_data : Get(flights_data[i], "ticket_uid") = u
\* the ticket with uid u that comes last in the batch
LastOf(flights_data, u) ==
    LET last == CHOOSE i \in DOMAIN flights_data :
                    /\ Get(flights_data[i], "ticket_uid") = u
                    /\ \A j \in DOMAIN flights_data :
                          Get(flights_data[j], "ticket_uid") = u => j <= i
    IN  flights_data[last]
\* the rows a ticket of a batch is stored as
TicketRow(t) ==
    [stored |-> TRUE, validating_airline |-> Get(t, "validating_airline"),
     price |-> Get(t, "price"), route_type |-> Get(t, "route_type")]
SegmentRows(t) ==
    [j \in DOMAIN Get(t, "segments") |-> FlightSegment(Get(t, "ticket_uid"), Get(t, "segments")[j])]

\* C14: a call in which a write fails leaves both tables as they were when it
\* began; a call in which none fails stores every ticket of the batch with its
\* segments and leaves the other tickets alone.
C14_BatchAtomic ==
    Called =>
        IF fault # 0 THEN db = before
        ELSE \A u \in Uids :
                IF InBatch(batch, u)
                THEN /\ db.tickets[u] = TicketRow(LastOf(batch, u))
                     /\ StoredSegments(db, u) = SegmentRows(LastOf(batch, u))
                ELSE /\ db.tickets[u] = before.tickets[u]
                     /\ StoredSegments(db, u) = StoredSegments(before, u)

\* a call over earlier data failed at the bulk_create of its second ticket,
\* after five writes, and the tables are as before
C14_Witness ==
    /\ Called /\ fault = 6 /\ Len(history) = 1
    /\ db = before /\ db # EmptyTables
    /\ Get(batch[1], "ticket_uid") = "T1" /\ db.tickets["T1"] # TicketRow(batch[1])

\* C15: persisting the batch that was persisted last once more changes
\* nothing: every ticket row is as it was and every ticket has exactly the
\* segments of the batch, none of them twice.
C15_UpsertIdempotent ==
    (/\ Called /\ fault = 0 /\ batch # << >> /\ Len(history) >= 2
     /\ history[Len(history)] = history[Len(history) - 1]) =>
        \A u \in Uids :
            /\ db.tickets[u] = before.tickets[u]
            /\ StoredSegments(db, u) = StoredSegments(before, u)
            /\ InBatch(batch, u) => StoredSegments(db, u) = SegmentRows(LastOf(batch, u))

\* a batch of two tickets, one of them with two segments, persisted twice
C15_Witness ==
    /\ Called /\ fault = 0 /\ Len(history) = 2 /\ batch = history[2] /\ history[1] = history[2]
    /\ Len(batch) = 2 /\ InBatch(batch, "T1") /\ InBatch(batch, "T2")
    /\ Len(StoredSegments(db, "T1")) = 2

\* the last committed batch that holds a ticket with uid u
LastBatchOf(u) ==
    history[CHOOSE i \in DOMAIN history :
                /\ InBatch(history[i], u)
                /\ \A j \in DOMAIN history : InBatch(history[j], u) => j <= i]

\* C16: after any calls that committed, the stored segments of every uid are
\* exactly the segments of the ticket persisted last under that uid.
C16_NoStaleSegments ==
    \A u \in Uids :
        (\E i \in DOMAIN history : InBatch(history[i], u)) =>
            StoredSegments(db, u) = SegmentRows(LastOf(LastBatchOf(u), u))

\* a ticket stored with two segments was persisted again with none, in a
\* batch that names its uid twice, and no segment of it is stored
C16_Witness ==
    /\ Len(history) = 2
    /\ Len(history[1]) = 1 /\ Len(SegmentRows(history[1][1])) = 2
    /\ Len(history[2]) = 2
    /\ \A i \in 1..2 : Get(history[2][i], "ticket_uid") = Get(history[1][1], "ticket_uid")
    /\ Len(SegmentRows(history[2][1])) = 1 /\ Len(SegmentRows(history[2][2])) = 0
    /\ StoredSegments(db, Get(history[1][1], "ticket_uid")) = << >>

(***************************************************************************)
(* Scrolling on its own: the loop of _scroll_page, one iteration a step;   *)
(* the card count the page shows after each scroll is the page's choice.   *)
(***************************************************************************)
\* most cards the page shows
MaxCount == 3
\* max_retries = 3
max_retries == 3
\* the latest observations kept in `observed`
ObservedKept == max_retries + 1

\* mutant of the else branch: the counter is not reset
no_change_counter_kept(counter) == counter
\* no_change_counter = 0
no_change_counter_reset(counter) == 0

ScrollInit ==
    /\ GateIdle /\ kd = KeyIdle /\ kk = <<NoKey, NoKey>>
    /\ UrlIdle /\ ExtractIdle /\ DbIdle /\ StageIdle
    /\ phase = "Scrolling"
    /\ last_count = 0
    /\ no_change_counter = 0
    /\ observed = << >>

\* services.py 87-110: one iteration of `while True`: press End, wait, count
\* the cards, then leave the loop or go on
ScrollAttempt(current_count) ==
    /\ phase = "Scrolling"
    /\ observed' = LET all == Append(observed, current_count)
                   IN  IF Len(all) > ObservedKept THEN Tail(all) ELSE all
    /\ IF current_count = last_count
       THEN /\ no_change_counter' = no_change_counter + 1
            /\ phase' = IF no_change_counter + 1 >= max_retries
                        THEN "Expanding" ELSE "Scrolling"
            /\ UNCHANGED last_count
       ELSE /\ no_change_counter' = no_change_counter_reset(no_change_counter)
            /\ last_count' = current_count
            /\ UNCHANGED phase
    /\ UNCHANGED <<gateVars, keyVars, urlVars, extractVars, dbVars, stageVars>>

ScrollNext == \E current_count \in 0..MaxCount : ScrollAttempt(current_count)

ScrollSpec == ScrollInit /\ [][ScrollNext]_vars

\* the loop never waits for anything but the page: an iteration that can be
\* taken is taken
ScrollLiveSpec == ScrollSpec /\ WF_vars(ScrollNext)

(***************************************************************************)
(* Properties of the scrolling (ScrollSpec, ScrollLiveSpec).               *)
(***************************************************************************)
\* the k-th latest count observed once the step is taken (1: the one just
\* read); before the first observation the count is the initial zero
Latest(k) == IF k <= Len(observed') THEN observed'[Len(observed') - k + 1] ELSE 0
\* there was a k-th latest attempt and it saw the count that was there before
Unchanged(k) == k <= Len(observed') /\ Latest(k) = Latest(k + 1)
Attempt == phase = "Scrolling" /\ observed' # observed
Exits == phase' = "Expanding"
ExitRule ==
    /\ Exits <=> \A k \in 1..max_retries : Unchanged(k)
    /\ ~Unchanged(1) => no_change_counter' = 0

\* C18 as claimed: the loop is left exactly at the first attempt that is the
\* third in a row to see an unchanged count, a changed count resets the
\* counter, and at the exit the count just observed equals each of the 3
\* observations before it.
C18_ScrollExitAsClaimed ==
    [][ Attempt =>
          /\ ExitRule
          /\ Exits => /\ Len(observed') >= max_retries + 1
                      /\ \A k \in 2..(max_retries + 1) : Latest(k) = Latest(1) ]_vars

\* C18 amended: ... and at the exit the count just observed equals the 2
\* observations before it and the count before those: the observation
\* before them, or the initial zero when the page never showed a card.
C18_ScrollExit ==
    [][ Attempt =>
          /\ ExitRule
          /\ Exits => /\ Len(observed') >= max_retries
                      /\ \A k \in 2..(max_retries + 1) : Latest(k) = Latest(1)
                      /\ Len(observed') = max_retries => Latest(1) = 0 ]_vars

\* the count changed once, then stayed for three attempts, and the loop is left
C18_Witness ==
    /\ phase = "Expanding"
    /\ observed = <<2, 2, 2, 2>> /\ last_count = 2 /\ no_change_counter = max_retries

\* C19: whatever counts the page reports, the loop is left in the end.
C19_ScrollTerminates == <>(phase = "Expanding")

(***************************************************************************)
(* FlightParser._expand_all_tickets (services.py 208-251).  A card of the  *)
(* page: whether it carries the class ticket--expanded, whether it holds a *)
(* .ticket-details / .ticket-details--hidden element, whether it has the   *)
(* toggle button, and whether that button has been clicked.  The site      *)
(* opens a clicked card some time after the click.                         *)
(***************************************************************************)
\* most cards on the page
MaxTickets == 3

ExpandInit ==
    /\ GateIdle /\ kd = KeyIdle /\ kk = <<NoKey, NoKey>>
    /\ UrlIdle /\ ExtractIdle /\ DbIdle
    /\ phase = "Expanding" /\ last_count = 0 /\ no_change_counter = 0
    /\ observed = << >>
    /\ ticket_els \in UNION {[1..n -> [expanded : BOOLEAN, details : BOOLEAN,
                                        toggle : BOOLEAN, clicked : {FALSE}]] :
                                n \in 1..MaxTickets}
    /\ clicked_tickets_count = NotYet
    /\ runs = << >> /\ sessions = << >> /\ chunks = << >>

\* lines 214-239: nothing to do when every card is expanded; else filter
\* the cards that are not expanded and hold no details element, click the
\* toggle of those that have one, and count the filtered cards
ExpandTrigger ==
    /\ phase = "Expanding" /\ clicked_tickets_count = NotYet
    /\ IF \A i \in DOMAIN ticket_els : ticket_els[i].expanded
       THEN /\ phase' = "Ready"
            /\ UNCHANGED <<ticket_els, clicked_tickets_count>>
       ELSE LET untouchedTickets ==
                    {i \in DOMAIN ticket_els :
                        ~ticket_els[i].expanded /\ ~ticket_els[i].details}
            IN  /\ ticket_els' =
                       [i \in DOMAIN ticket_els |->
                           IF i \in untouchedTickets /\ ticket_els[i].toggle
                           THEN [ticket_els[i] EXCEPT !.clicked = TRUE]
                           ELSE ticket_els[i]]
                /\ clicked_tickets_count' = Cardinality(untouchedTickets)
                /\ UNCHANGED phase
    /\ UNCHANGED <<gateVars, keyVars, urlVars, extractVars, dbVars,
                   last_count, no_change_counter, observed, runs, sessions, chunks>>

\* the site opens a card whose toggle was clicked
TicketOpens(i) ==
    /\ phase = "Expanding" /\ i \in DOMAIN ticket_els
    /\ ticket_els[i].clicked /\ ~ticket_els[i].expanded
    /\ ticket_els' = [ticket_els EXCEPT ![i].expanded = TRUE]
    /\ UNCHANGED <<gateVars, keyVars, urlVars, extractVars, dbVars,
                   scrollVars, clicked_tickets_count, runs, sessions, chunks>>

\* lines 242-251: wait_for_function returns once the expanded cards are at
\* least as many as clicked_tickets_count, and raises after 50000 ms if they
\* are not
ExpandWait ==
    /\ phase = "Expanding" /\ clicked_tickets_count # NotYet
    /\ LET expandedTickets == {i \in DOMAIN ticket_els : ticket_els[i].expanded}
       IN  phase' = IF Cardinality(expandedTickets) >= clicked_tickets_count
                    THEN "Ready" ELSE "TimedOut"
    /\ UNCHANGED <<gateVars, keyVars, urlVars, extractVars, dbVars,
                   last_count, no_change_counter, observed, stageVars>>

ExpandSpec ==
    ExpandInit /\ [][ \/ ExpandTrigger
                      \/ \E i \in 1..MaxTickets : TicketOpens(i)
                      \/ ExpandWait ]_vars

(***************************************************************************)
(* Properties of the expansion (ExpandSpec).                               *)
(***************************************************************************)
\* C21: when the expansion completes without a timeout, every card that was
\* collapsed when the clicks were triggered (the cards the trigger counts:
\* not expanded, no details element) has opened.
C21_ReadyMeansExpanded ==
    phase = "Ready" =>
        \A i \in DOMAIN ticket_els : ~ticket_els[i].details => ticket_els[i].expanded

(***************************************************************************)
(* FlightParser.run step by step (services.py 487-516), for NumRuns calls  *)
(* in progress at once.  Of a call: pc, the step it takes next; browser,   *)
(* the number of the browser it launched (0: none); content, what the      *)
(* content wait saw; ran, the stages it went through; result, what it      *)
(* returns (Raised: an exception leaves it).                               *)
(***************************************************************************)
\* calls of run in progress at once
NumRuns == 2

RunInit ==
    /\ GateIdle /\ kd = KeyIdle /\ kk = <<NoKey, NoKey>>
    /\ UrlIdle /\ ExtractIdle /\ DbIdle /\ ScrollIdle
    /\ ticket_els = << >> /\ clicked_tickets_count = NotYet
    /\ runs = [i \in 1..NumRuns |->
                 [pc |-> "launch", browser |-> 0, content |-> "-",
                  ran |-> {}, result |-> None]]
    /\ sessions = << >> /\ chunks = << >>

\* lines 489-490: enter async_playwright() and launch a browser of its own;
\* a failed launch leaves the with block
RunLaunch(i, outcome) ==
    /\ runs[i].pc = "launch"
    /\ IF outcome = "ok"
       THEN /\ sessions' = Append(sessions, "open")
            /\ runs' = [runs EXCEPT ![i].pc = "setup",
                                    ![i].browser = Len(sessions) + 1]
       ELSE /\ runs' = [runs EXCEPT ![i].pc = "exit", ![i].result = Raised]
            /\ UNCHANGED sessions
    /\ UNCHANGED <<gateVars, keyVars, urlVars, extractVars, dbVars, scrollVars,
                   ticket_els, clicked_tickets_count, chunks>>

\* lines 491-495: new_context, new_page, _disable_animations, all before the
\* try block: an exception of theirs leaves the with block
RunSetup(i, outcome) ==
    /\ runs[i].pc = "setup"
    /\ runs' = IF outcome = "ok"
               THEN [runs EXCEPT ![i].pc = "navigate"]
               ELSE [runs EXCEPT ![i].pc = "exit", ![i].result = Raised]
    /\ UNCHANGED <<gateVars, keyVars, urlVars, extractVars, dbVars, scrollVars,
                   ticket_els, clicked_tickets_count, sessions, chunks>>

\* lines 497-499, 513-514: _navigate_to_results; an exception becomes the
\* error text
RunNavigate(i, outcome) ==
    /\ runs[i].pc = "navigate"
    /\ runs' = IF outcome = "ok"
               THEN [runs EXCEPT ![i].pc = "wait", ![i].ran = @ \cup {"navigate"}]
               ELSE [runs EXCEPT ![i].pc = "finally", ![i].ran = @ \cup {"navigate"},
                                 ![i].result = ErrorText]
    /\ UNCHANGED <<gateVars, keyVars, urlVars, extractVars, dbVars, scrollVars,
                   ticket_els, clicked_tickets_count, sessions, chunks>>

\* lines 463-464, 511: the content wait; without content _parse_results
\* returns [] and run the no-results marker
RunWait(i, outcome) ==
    /\ runs[i].pc = "wait"
    /\ runs' =
         IF wait_for_content(Env("ok", "ok", "ok", outcome, "-", "-")) = "True"
         THEN [runs EXCEPT ![i].pc = "parse", ![i].content = outcome,
                           ![i].ran = @ \cup {"wait"}]
         ELSE [runs EXCEPT ![i].pc = "finally", ![i].content = outcome,
                           ![i].ran = @ \cup {"wait"}, ![i].result = NoFlights]
    /\ UNCHANGED <<gateVars, keyVars, urlVars, extractVars, dbVars, scrollVars,
                   ticket_els, clicked_tickets_count, sessions, chunks>>

\* lines 467-485, 504-514: scroll, expand, collect the cards, extract them;
\* outcome names how far this gets: a fault while scrolling, the expansion
\* timeout, no card on the page, no card extracted, or tickets
RunParse(i, outcome) ==
    /\ runs[i].pc = "parse"
    /\ LET stages == IF outcome = "fault" THEN {"scroll"}
                     ELSE IF outcome \in {"expand_timeout", "no_cards"}
                          THEN {"scroll", "expand"}
                          ELSE {"scroll", "expand", "extract"}
           flights_list == parse_results(Env("ok", "ok", "ok", "best_deals", outcome, "-"))
       IN  runs' =
             IF flights_list = Raised
             THEN [runs EXCEPT ![i].pc = "finally", ![i].ran = @ \cup stages,
                               ![i].result = ErrorText]
             ELSE IF flights_list = EmptyList
             THEN [runs EXCEPT ![i].pc = "finally", ![i].ran = @ \cup stages,
                               ![i].result = NoFlights]
             ELSE [runs EXCEPT ![i].pc = "save", ![i].ran = @ \cup stages]
    /\ UNCHANGED <<gateVars, keyVars, urlVars, extractVars, dbVars, scrollVars,
                   ticket_els, clicked_tickets_count, sessions, chunks>>

\* lines 504-509: _save_flights_to_db, which swallows its own exceptions,
\* then return the list
RunSave(i) ==
    /\ runs[i].pc = "save"
    /\ runs' = [runs EXCEPT ![i].pc = "finally", ![i].ran = @ \cup {"save"},
                            ![i].result = TicketList]
    /\ UNCHANGED <<gateVars, keyVars, urlVars, extractVars, dbVars, scrollVars,
                   ticket_els, clicked_tickets_count, sessions, chunks>>

\* lines 515-516: finally: await browser.close()
RunFinally(i) ==
    /\ runs[i].pc = "finally"
    /\ sessions' = [sessions EXCEPT ![runs[i].browser] = "closed"]
    /\ runs' = [runs EXCEPT ![i].pc = "exit"]
    /\ UNCHANGED <<gateVars, keyVars, urlVars, extractVars, dbVars, scrollVars,
                   ticket_els, clicked_tickets_count, chunks>>

\* mutant of the exit: the browser outlives the Playwright driver
RunExitKeepsBrowser(i) ==
    /\ runs[i].pc = "exit"
    /\ runs' = [runs EXCEPT ![i].pc = "done"]
    /\ UNCHANGED <<gateVars, keyVars, urlVars, extractVars, dbVars, scrollVars,
                   ticket_els, clicked_tickets_count, sessions, chunks>>

\* line 489: the async with block is left, by the return or by an
\* exception: Playwright stops its driver, which ends every browser the
\* driver launched and that is still open
RunExit(i) ==
    /\ runs[i].pc = "exit"
    /\ runs' = [runs EXCEPT ![i].pc = "done"]
    /\ sessions' = IF runs[i].browser = 0 THEN sessions
                   ELSE [sessions EXCEPT ![runs[i].browser] = "closed"]
    /\ UNCHANGED <<gateVars, keyVars, urlVars, extractVars, dbVars, scrollVars,
                   ticket_els, clicked_tickets_count, chunks>>

RunSpec ==
    RunInit /\ [][ \E i \in 1..NumRuns :
                      \/ \E outcome \in {"ok", "fault"} : RunLaunch(i, outcome)
                      \/ \E outcome \in {"ok", "fault"} : RunSetup(i, outcome)
                      \/ \E outcome \in {"ok", "fault"} : RunNavigate(i, outcome)
                      \/ \E outcome \in {"best_deals", "nothing_found", "timeout", "fault"} :
                            RunWait(i, outcome)
                      \/ \E outcome \in {"fault", "expand_timeout", "no_cards",
                                         "none_extracted", "tickets"} :
                            RunParse(i, outcome)
                      \/ RunSave(i)
                      \/ RunFinally(i)
                      \/ RunExit(i) ]_vars

C24_NothingFoundIsEmpty ==
    \A i \in 1..NumRuns :
        runs[i].content = "nothing_found" =>
            /\ runs[i].pc \in {"finally", "exit", "done"}
            /\ runs[i].ran = {"navigate", "wait"}
            /\ runs[i].result = NoFlights

\* a call that saw the nothing-found marker is over and its browser closed
C24_Witness ==
    /\ runs[1].pc = "done" /\ runs[1].content = "nothing_found"
    /\ runs[1].result = NoFlights /\ sessions[runs[1].browser] = "closed"

(***************************************************************************)
(* The batches of FlightParser._process_chunks (services.py 360-384) and   *)
(* the extraction tasks asyncio.gather runs for each.  chunks holds        *)
(* total_count, the loop variable i, where the loop stands (pc) and, per   *)
(* batch made so far, the index it starts from, its size and how many of   *)
(* its extractions have started and finished.                              *)
(***************************************************************************)
\* most cards handed to _process_chunks
MaxItems == 27

\* mutant of the await: the batch counts as done with its first extraction
gather_returns_first(t) == t.finished >= 1
\* await asyncio.gather(*tasks, return_exceptions=True): back once every
\* task of the batch is over, however it ended
gather_returns(t) == t.finished = t.size

ChunkInit ==
    /\ GateIdle /\ kd = KeyIdle /\ kk = <<NoKey, NoKey>>
    /\ UrlIdle /\ ExtractIdle /\ DbIdle /\ ScrollIdle
    /\ ticket_els = << >> /\ clicked_tickets_count = NotYet
    /\ runs = << >> /\ sessions = << >>
    /\ chunks \in {[total_count |-> n, i |-> 0, tasks |-> << >>, pc |-> "loop"] :
                      n \in 0..MaxItems}

\* lines 366-370, 384: for i in range(0, total_count, chunk_size): cut the
\* next chunk and make its tasks; return all_results after the last one
ChunkLoop ==
    /\ chunks.pc = "loop"
    /\ chunks' =
         IF chunks.i < chunks.total_count
         THEN LET rest == chunks.total_count - chunks.i
                  chunk == [from |-> chunks.i,
                            size |-> IF rest < ChunkSize THEN rest ELSE ChunkSize,
                            started |-> 0, finished |-> 0]
              IN  [chunks EXCEPT !.tasks = Append(@, chunk), !.pc = "gather"]
         ELSE [chunks EXCEPT !.pc = "returned"]
    /\ UNCHANGED <<gateVars, keyVars, urlVars, extractVars, dbVars, scrollVars,
                   ticket_els, clicked_tickets_count, runs, sessions>>

\* line 373: the event loop starts an extraction of batch k
TaskStarts(k) ==
    /\ k \in DOMAIN chunks.tasks
    /\ chunks.tasks[k].started < chunks.tasks[k].size
    /\ chunks' = [chunks EXCEPT !.tasks[k].started = @ + 1]
    /\ UNCHANGED <<gateVars, keyVars, urlVars, extractVars, dbVars, scrollVars,
                   ticket_els, clicked_tickets_count, runs, sessions>>

\* line 373: an extraction of batch k that is in flight comes to its end
TaskFinishes(k) ==
    /\ k \in DOMAIN chunks.tasks
    /\ chunks.tasks[k].finished < chunks.tasks[k].started
    /\ chunks' = [chunks EXCEPT !.tasks[k].finished = @ + 1]
    /\ UNCHANGED <<gateVars, keyVars, urlVars, extractVars, dbVars, scrollVars,
                   ticket_els, clicked_tickets_count, runs, sessions>>

\* lines 373-380: gather is back, the results of the batch are collected
\* and the loop goes on
ChunkDone ==
    /\ chunks.pc = "gather"
    /\ gather_returns(chunks.tasks[Len(chunks.tasks)])
    /\ chunks' = [chunks EXCEPT !.i = @ + ChunkSize, !.pc = "loop"]
    /\ UNCHANGED <<gateVars, keyVars, urlVars, extractVars, dbVars, scrollVars,
                   ticket_els, clicked_tickets_count, runs, sessions>>

ChunkSpec ==
    ChunkInit /\ [][ \/ ChunkLoop
                     \/ \E k \in 1..MaxItems : TaskStarts(k)
                     \/ \E k \in 1..MaxItems : TaskFinishes(k)
                     \/ ChunkDone ]_vars

(***************************************************************************)
(* Properties of the batches (ChunkSpec).                                  *)
(***************************************************************************)
\* C25: the cards are cut in list order into batches of at most ChunkSize,
\* each card in exactly one; the extractions in flight are at most ChunkSize
\* and all of the latest batch, and no extraction of a batch starts before
\* every extraction of the batch before it is over.
C25_BatchesInOrder ==
    LET tasks == chunks.tasks
        last == tasks[Len(tasks)]
    IN  /\ \A k \in DOMAIN tasks :
              /\ tasks[k].size \in 1..ChunkSize
              /\ tasks[k].from = (k - 1) * ChunkSize
              /\ tasks[k].from + tasks[k].size <= chunks.total_count
              /\ tasks[k].started - tasks[k].finished \in 0..ChunkSize
              /\ k < Len(tasks) =>
                    /\ tasks[k].size = ChunkSize
                    /\ tasks[k].finished = tasks[k].size
        /\ chunks.pc = "returned" =>
              IF tasks = << >> THEN chunks.total_count = 0
              ELSE /\ last.from + last.size = chunks.total_count
                   /\ last.finished = last.size

\* 27 cards: the 25 of the first batch are over, the 2 of the second are in
\* flight
C25_Witness ==
    /\ chunks.total_count = ChunkSize + 2
    /\ chunks.tasks = << [from |-> 0, size |-> ChunkSize,
                          started |-> ChunkSize, finished |-> ChunkSize],
                         [from |-> ChunkSize, size |-> 2, started |-> 2, finished |-> 0] >>

(***************************************************************************)
(* Further properties of the storage (DbSpec).                             *)
(***************************************************************************)
\* C27: when the first ticket of a batch fails at its update_or_create (a
\* price that cannot be made a Decimal, a missing ticket_uid), that ticket is
\* skipped and every other ticket of the batch is stored with its segments.
C27_BadTicketSkipped ==
    Called /\ fault = 1 =>
        \A u \in Uids :
            InBatch(batch, u) /\ u # Get(batch[1], "ticket_uid") =>
                /\ db.tickets[u] = TicketRow(LastOf(batch, u))
                /\ StoredSegments(db, u) = SegmentRows(LastOf(batch, u))

\* Ticket.ROUTE_TYPES: the values a stored route_type may take
ROUTE_TYPES == {"one_way", "round_trip", "multi_city"}

\* C28: every stored ticket carries the route type the classifier gave for
\* the legs of the search, as one of the three values of Ticket.ROUTE_TYPES.
C28_StoredRouteType ==
    \A u \in Uids : db.tickets[u].stored => db.tickets[u].route_type \in ROUTE_TYPES

====
